---- MODULE Spec2Model ----
(***************************************************************************)
(* Model of libanalyzer.py / showcases.py (framing-control analytics).     *)
(*                                                                         *)
(* Representation of the Python values:                                    *)
(*   host name        sequence of labels, "a.example" = <<"a","example">>  *)
(*                    (str.split('.')); the empty sequence is an empty or  *)
(*                    missing hostname                                     *)
(*   URL string       [rel, scheme, host]; rel = TRUE is "//host"          *)
(*   expression       '*' = <<"*">>, 'none' = <<"none">>,                  *)
(*                    (scheme, host) = <<scheme, host>>                    *)
(*   XFO value        "JUNK" = <<"JUNK">>, "DENY" = <<"DENY">>,            *)
(*                    "ALLOW-JUNK" = <<"ALLOW-JUNK">>,                     *)
(*                    ("SAMEORIGIN", o) = <<"SAMEORIGIN", o>>,             *)
(*                    ("ALLOW-FROM", o) = <<"ALLOW-FROM", o>>              *)
(*   raw XFO header   sequence of comma-separated segments (never empty,   *)
(*                    as str.split(',')); a segment is [ws, body]: ws is a *)
(*                    leading blank, body the space-separated tokens       *)
(*   raw CSP header   [pad, toks]: toks are the whitespace-separated       *)
(*                    tokens, pad is surrounding whitespace                *)
(*   str "JUNK" returned in place of a list: JUNK_STR                      *)
(***************************************************************************)
EXTENDS Integers, Sequences, FiniteSets, TLC

VARIABLES pc, orig, p, b, res, e1, e2, out, data, inc, flags, status

vars == <<pc, orig, p, b, res, e1, e2, out, data, inc, flags, status>>

-----------------------------------------------------------------------------
(* Bounds of the checked input space *)

MaxDepth == 3
MaxSegs == 2
MaxCsp == 2
MaxBrowsers == 3

Labels == {"a", "b"}

-----------------------------------------------------------------------------
(* Python constants *)

NO_HEADER == "WARN_NO_HEADER"

Star == <<"*">>
NoneExp == <<"none">>
X_JUNK == <<"JUNK">>
X_DENY == <<"DENY">>
X_ALLOW_JUNK == <<"ALLOW-JUNK">>
JUNK_STR == << <<"JUNK">> >>
\* Python's None and a value that is not None, as returned by the parsers
PyNone == [some |-> FALSE, val |-> <<>>]
Some(v) == [some |-> TRUE, val |-> v]

FIREFOX == "Mozilla/5.0 (Windows NT 10.0; Win64; x64; rv:67.0) Gecko/20100101 Firefox/67.0"
CHROME == "Mozilla/5.0 (Windows NT 10.0; Win64; x64) AppleWebKit/537.36 (KHTML, like Gecko) Chrome/77.0.3865.75 Safari/537.36"
SAFARI == "Mozilla/5.0 (Macintosh; Intel Mac OS X 10_14_4) AppleWebKit/605.1.15 (KHTML, like Gecko) Version/12.1 Safari/605.1.15"
SAFARI_IOS == "Mozilla/5.0 (iPhone; CPU iPhone OS 12_4 like Mac OS X) AppleWebKit/605.1.15 (KHTML, like Gecko) Version/12.1.2 Mobile/15E148 Safari/604.1"
SAMSUNG == "Mozilla/5.0 (Linux; Android 9; SAMSUNG SM-G960U Build/PPR1.180610.011) AppleWebKit/537.36 (KHTML, like Gecko) SamsungBrowser/9.4 Chrome/67.0.3396.87 Mobile Safari/537.36"
UC_BROWSER == "Mozilla/5.0 (Linux; U; Android 7.0; es-LA; Moto C Build/NRD90M.068) AppleWebKit/537.36 (KHTML, like Gecko) Version/4.0 Chrome/57.0.2987.108 UCBrowser/12.9.5.1146 Mobile Safari/537.36"
IE == "Mozilla/5.0 (Windows NT 6.1; WOW64; Trident/7.0; rv:11.0) like Gecko"
OPERA_MINI == "Opera/9.80 (Android; Opera Mini/12.0.1987/37.7327; U; pl) Presto/2.12.423 Version/12.16"
EDGE == "Mozilla/5.0 (Windows NT 10.0; Win64; x64) AppleWebKit/537.36 (KHTML, like Gecko) Chrome/64.0.3282.140 Safari/537.36 Edge/18.17763"
UNKNOWN_UA == "curl/7.64.0"

-----------------------------------------------------------------------------
(* String helpers *)

\* str.lower() on the words of the modelled vocabulary
Lower(s) ==
    CASE s = "SAMEORIGIN" -> "sameorigin"
      [] s = "DENY" -> "deny"
      [] s = "ALLOW-FROM" -> "allow-from"
      [] s = "WARN_NO_HEADER" -> "warn_no_header"
      [] s = "'NONE'" -> "'none'"
      [] s = "'SELF'" -> "'self'"
      [] OTHER -> s

\* host.startswith("*.")
StartsWithStarDot(h) == Len(h) >= 2 /\ h[1] = "*"

\* variant of EndsWithDot: the suffix test without the '.' separator, so that
\* the bare domain matches too
EndsWithSuffix(h1, rest) ==
    /\ Len(h1) >= Len(rest)
    /\ SubSeq(h1, Len(h1) - Len(rest) + 1, Len(h1)) = rest

\* h1.endswith('.' + '.'.join(rest)) on label sequences
EndsWithDot(h1, rest) ==
    /\ Len(h1) > Len(rest)
    /\ SubSeq(h1, Len(h1) - Len(rest) + 1, Len(h1)) = rest

\* urlparse(u): (scheme, hostname) of a URL string; "//host" has no scheme
urlparse(u) == IF u.rel THEN <<"", u.host>> ELSE <<u.scheme, u.host>>

\* o.startswith('//') => o = 'https:' + o
WithHttps(o) == IF o.rel THEN [rel |-> FALSE, scheme |-> "https", host |-> o.host] ELSE o

-----------------------------------------------------------------------------
(* Origin validator *)

is_valid_origin(uo) ==
    LET valid_scheme == uo[1] = "http" \/ uo[1] = "https"
        valid_hostname == uo[2] # <<>> /\ ~StartsWithStarDot(uo[2])
    IN  valid_scheme /\ valid_hostname

-----------------------------------------------------------------------------
(* Header parser *)

\* the segment and the header that spell 'WARN_NO_HEADER' exactly
SENTINEL_SEG == [ws |-> FALSE, body |-> <<NO_HEADER>>]

\* parse_xfo(s): None for the sentinel, else s.strip(): the leading blank of
\* the first segment goes
parse_xfo(s) ==
    IF s = <<SENTINEL_SEG>>
    THEN PyNone
    ELSE Some([i \in 1..Len(s) |-> IF i = 1 THEN [s[i] EXCEPT !.ws = FALSE] ELSE s[i]])

SENTINEL_CSP == [pad |-> FALSE, toks |-> << <<"kw", NO_HEADER>> >>]

\* parse_csp(s): None for the sentinel, else s.strip().split()
parse_csp(s) == IF s = SENTINEL_CSP THEN PyNone ELSE Some(s.toks)

-----------------------------------------------------------------------------
(* Policy normalizer *)

\* len(v.split(' ')) of a stripped value of comma-joined segments
NumTokens(v) ==
    LET RECURSIVE Cnt(_)
        Cnt(i) == IF i > Len(v) THEN 0
                  ELSE (IF i = 1 \/ v[i].ws THEN Len(v[i].body) ELSE Len(v[i].body) - 1)
                       + Cnt(i + 1)
    IN  Cnt(1)

\* the text after the first segment that str.split(' ') leaves glued to
\* tokens[1] when the value has exactly two tokens
GluedTail(v) ==
    LET RECURSIVE Glue(_)
        Glue(i) == IF i > Len(v) THEN "" ELSE "," \o Lower(v[i].body[1]) \o Glue(i + 1)
    IN  Glue(2)

\* hostname of urlparse(tokens[1]) when tokens[1] is a URL followed by glue
GlueHost(h, t) ==
    IF t = "" THEN h
    ELSE IF h = <<>> THEN <<t>>
    ELSE [h EXCEPT ![Len(h)] = @ \o t]

normalize_xfo(v, o) ==
    LET uo == urlparse(WithHttps(o))
        first == Lower(v[1].body[1])
    IN  IF ~is_valid_origin(uo) THEN X_JUNK
        ELSE IF Len(v) = 1 /\ Len(v[1].body) = 1 /\ first = "sameorigin"
            THEN <<"SAMEORIGIN", <<uo[1], uo[2]>> >>
        ELSE IF Len(v) = 1 /\ Len(v[1].body) = 1 /\ first = "deny"
            THEN X_DENY
        ELSE IF first = "allow-from" /\ Len(v[1].body) >= 2
            THEN LET raw == urlparse(v[1].body[2])
                     ue == <<raw[1], GlueHost(raw[2], GluedTail(v))>>
                 IN  IF NumTokens(v) = 2 /\ is_valid_origin(ue)
                     THEN <<"ALLOW-FROM", <<ue[1], ue[2]>> >>
                     ELSE X_ALLOW_JUNK
        ELSE X_JUNK

\* one source expression of normalize_csp's loop
normalize_token(e, uo) ==
    IF e[1] = "kw"
    THEN LET w == Lower(e[2])
         IN  CASE w = "*" -> Star
               [] w = "'none'" -> NoneExp
               [] w = "'self'" -> <<uo[1], uo[2]>>
               [] w = "http:" -> <<"http", <<"*">> >>
               [] w = "https:" -> <<"https", <<"*">> >>
               [] OTHER -> <<uo[1], <<w>> >>
    ELSE IF e[2] = "" THEN <<uo[1], e[3]>> ELSE <<e[2], e[3]>>

normalize_csp(v, o) ==
    LET uo == urlparse(WithHttps(o))
    IN  IF ~is_valid_origin(uo) THEN JUNK_STR
        ELSE [i \in 1..Len(v) |-> normalize_token(v[i], uo)]

-----------------------------------------------------------------------------
(* Ordering / lattice engine *)

leq_host(h1, h2) ==
    IF h1 = h2 THEN TRUE
    ELSE IF h2 = <<"*">> THEN TRUE
    ELSE IF h1 = <<"*">> THEN FALSE
    ELSE IF h1[1] = "*"
        THEN h2[1] = "*" /\ EndsWithDot(h1, Tail(h2))
    ELSE IF h2[1] = "*"
        THEN EndsWithDot(h1, Tail(h2))
    ELSE FALSE

leq_exp(x1, x2) ==
    IF x1 = x2 THEN TRUE
    ELSE IF x2 = Star THEN TRUE
    ELSE IF x1 = Star THEN FALSE
    ELSE IF x2 = NoneExp THEN FALSE
    ELSE IF x1 = NoneExp THEN TRUE
    ELSE x1[1] = x2[1] /\ leq_host(x1[2], x2[2])

leq_val(v1, v2) ==
    \A i \in 1..Len(v1) : \E j \in 1..Len(v2) : leq_exp(v1[i], v2[j])

\* variant of meet: the second comparison is forgotten
meet_one_sided(x1, x2) ==
    IF leq_exp(x1, x2) THEN x1
    ELSE NoneExp

\* variant of meet: incomparable expressions give the second one
meet_keep_right(x1, x2) ==
    IF leq_exp(x1, x2) THEN x1
    ELSE x2

meet(x1, x2) ==
    IF leq_exp(x1, x2) THEN x1
    ELSE IF leq_exp(x2, x1) THEN x2
    ELSE NoneExp

-----------------------------------------------------------------------------
(* Browser translators *)

\* variant of SplitOnCommas: the headers are not split
NoSplit(hs) == hs

\* [y for x in [x.split(',') for x in p['xfo']] for y in x]: every segment
\* becomes a string of its own
SplitOnCommas(hs) ==
    LET RECURSIVE Flat(_)
        Flat(i) == IF i > Len(hs) THEN <<>>
                   ELSE [k \in 1..Len(hs[i]) |-> <<hs[i][k]>>] \o Flat(i + 1)
    IN  Flat(1)

\* the loop "px = parse_xfo(x); if px is not None: append(normalize_xfo(px, orig))"
NormalizeAllXfo(xs, o) ==
    LET RECURSIVE Loop(_)
        Loop(i) == IF i > Len(xs) THEN <<>>
                   ELSE LET px == parse_xfo(xs[i])
                        IN  (IF px.some THEN <<normalize_xfo(px.val, o)>> ELSE <<>>)
                            \o Loop(i + 1)
    IN  Loop(1)

\* the loop "pc = parse_csp(c); if pc is not None: append(normalize_csp(pc, orig))"
NormalizeAllCsp(cs, o) ==
    LET RECURSIVE Loop(_)
        Loop(i) == IF i > Len(cs) THEN <<>>
                   ELSE LET q == parse_csp(cs[i])
                        IN  (IF q.some THEN <<normalize_csp(q.val, o)>> ELSE <<>>)
                            \o Loop(i + 1)
    IN  Loop(1)

\* the value one XFO entry contributes to Firefox's fold
FirefoxValue(x) ==
    IF x = X_JUNK THEN Star
    ELSE IF x = X_DENY \/ x = X_ALLOW_JUNK THEN NoneExp
    ELSE x[2]

\* the value one XFO entry contributes to Chrome's fold
ChromeValue(x) ==
    IF x = X_JUNK \/ x = X_ALLOW_JUNK \/ x[1] = "ALLOW-FROM" THEN Star
    ELSE IF x = X_DENY THEN NoneExp
    ELSE x[2]

\* Opera Mini's reading of the first XFO entry
OperaMiniValue(x) ==
    IF x = X_JUNK \/ x = X_ALLOW_JUNK \/ x[1] = "ALLOW-FROM" THEN Star
    ELSE IF x = X_DENY THEN NoneExp
    ELSE x[2]

\* Edge's reading of the first XFO entry
EdgeValue(x) ==
    IF x = X_JUNK THEN Star
    ELSE IF x = X_DENY \/ x = X_ALLOW_JUNK THEN NoneExp
    ELSE x[2]

\* variant of ExplorerValue: ALLOW-FROM read as in Opera Mini
ExplorerValue_as_opera(x) ==
    IF x = X_JUNK \/ x = X_ALLOW_JUNK \/ x[1] = "ALLOW-FROM" THEN Star
    ELSE IF x = X_DENY THEN NoneExp
    ELSE x[2]

\* Internet Explorer's reading of the first XFO entry
ExplorerValue(x) ==
    IF x = X_JUNK THEN Star
    ELSE IF x = X_DENY \/ x = X_ALLOW_JUNK THEN NoneExp
    ELSE x[2]

t_firefox(q, o) ==
    LET xfo == NormalizeAllXfo(SplitOnCommas(q.xfo), o)
        csp == NormalizeAllCsp(q.csp, o)
        RECURSIVE Loop(_, _)
        Loop(i, r) == IF i > Len(xfo) THEN r
                      ELSE Loop(i + 1, meet(r, FirefoxValue(xfo[i])))
    IN  IF Len(csp) > 0 THEN csp[1]
        ELSE IF Len(xfo) > 0 THEN <<Loop(1, Star)>>
        ELSE <<Star>>

\* variant of t_chrome: the last present modern header wins
t_chrome_last_csp(q, o) ==
    LET xfo == NormalizeAllXfo(SplitOnCommas(q.xfo), o)
        csp == NormalizeAllCsp(q.csp, o)
        RECURSIVE Loop(_, _)
        Loop(i, r) == IF i > Len(xfo) THEN r
                      ELSE Loop(i + 1, meet(r, ChromeValue(xfo[i])))
    IN  IF Len(csp) > 0 THEN csp[Len(csp)]
        ELSE IF Len(xfo) > 0 THEN <<Loop(1, Star)>>
        ELSE <<Star>>

t_chrome(q, o) ==
    LET xfo == NormalizeAllXfo(SplitOnCommas(q.xfo), o)
        csp == NormalizeAllCsp(q.csp, o)
        RECURSIVE Loop(_, _)
        Loop(i, r) == IF i > Len(xfo) THEN r
                      ELSE Loop(i + 1, meet(r, ChromeValue(xfo[i])))
    IN  IF Len(csp) > 0 THEN csp[1]
        ELSE IF Len(xfo) > 0 THEN <<Loop(1, Star)>>
        ELSE <<Star>>

t_opera_mini(q, o) ==
    LET xfo == NormalizeAllXfo(q.xfo, o)
    IN  IF Len(xfo) > 0 THEN <<OperaMiniValue(xfo[1])>>
        ELSE <<Star>>

t_edge(q, o) ==
    LET csp == NormalizeAllCsp(q.csp, o)
        xfo == NormalizeAllXfo(q.xfo, o)
    IN  IF Len(csp) > 0 THEN csp[1]
        ELSE IF Len(xfo) > 0 THEN <<EdgeValue(xfo[1])>>
        ELSE <<Star>>

t_explorer(q, o) ==
    LET xfo == NormalizeAllXfo(q.xfo, o)
    IN  IF Len(xfo) > 0 THEN <<ExplorerValue(xfo[1])>>
        ELSE <<Star>>

ChromeFamily == {CHROME, SAFARI, SAFARI_IOS, SAMSUNG, UC_BROWSER}

SupportedBrowsers == {FIREFOX, IE, OPERA_MINI, EDGE} \cup ChromeFamily

\* translate(p, b, orig) for a supported b (any other b ends the process)
translate(q, ua, o) ==
    IF ua = FIREFOX THEN t_firefox(q, o)
    ELSE IF ua \in ChromeFamily THEN t_chrome(q, o)
    ELSE IF ua = IE THEN t_explorer(q, o)
    ELSE IF ua = OPERA_MINI THEN t_opera_mini(q, o)
    ELSE t_edge(q, o)

just_xfo(ua) == ua \in {IE, OPERA_MINI}

-----------------------------------------------------------------------------
(* Inconsistency analyzer *)

\* [out.append(x) for x in xs if x not in out]
RemoveDuplicates(xs) ==
    LET RECURSIVE Loop(_, _)
        Loop(i, acc) ==
            IF i > Len(xs) THEN acc
            ELSE Loop(i + 1, IF \E k \in 1..Len(acc) : acc[k] = xs[i]
                             THEN acc ELSE Append(acc, xs[i]))
    IN  Loop(1, <<>>)

\* d is the dict p in insertion order: a sequence of <<user agent, bundle>>
find_inconsistencies(d, o) ==
    LET Key(i) == IF just_xfo(d[i][1]) THEN "xfo" ELSE "csp"
        RECURSIVE Bucket(_, _)
        Bucket(i, key) ==
            IF i > Len(d) THEN <<>>
            ELSE (IF Key(i) = key THEN <<translate(d[i][2], d[i][1], o)>> ELSE <<>>)
                 \o Bucket(i + 1, key)
    IN  [xfo |-> RemoveDuplicates(Bucket(1, "xfo")),
         csp |-> RemoveDuplicates(Bucket(1, "csp"))]

\* variant of is_inconsistent: both directions must fail
is_inconsistent_and(s) ==
    IF Len(s.xfo) > 1 \/ Len(s.csp) > 1 THEN TRUE
    ELSE IF Len(s.xfo) = 1 /\ Len(s.csp) = 1
        THEN LET v1 == s.xfo[1]
                 v2 == s.csp[1]
             IN  ~leq_val(v1, v2) /\ ~leq_val(v2, v1)
    ELSE FALSE

is_inconsistent(s) ==
    IF Len(s.xfo) > 1 \/ Len(s.csp) > 1 THEN TRUE
    ELSE IF Len(s.xfo) = 1 /\ Len(s.csp) = 1
        THEN LET v1 == s.xfo[1]
                 v2 == s.csp[1]
             IN  ~leq_val(v1, v2) \/ ~leq_val(v2, v1)
    ELSE FALSE

\* variant of is_sec_oriented: an empty bucket is not security oriented
is_sec_oriented_strict(s) ==
    IF Len(s.xfo) > 1 \/ Len(s.csp) > 1 THEN FALSE
    ELSE IF Len(s.xfo) = 0 \/ Len(s.csp) = 0 THEN FALSE
    ELSE leq_val(s.xfo[1], s.csp[1])

is_sec_oriented(s) ==
    IF Len(s.xfo) > 1 \/ Len(s.csp) > 1 THEN FALSE
    ELSE IF Len(s.xfo) = 0 \/ Len(s.csp) = 0 THEN TRUE
    ELSE leq_val(s.xfo[1], s.csp[1])

is_comp_oriented(s) ==
    IF Len(s.xfo) > 1 \/ Len(s.csp) > 1 THEN FALSE
    ELSE IF Len(s.xfo) = 0 \/ Len(s.csp) = 0 THEN TRUE
    ELSE leq_val(s.csp[1], s.xfo[1])

\* the status line analyze prints for a report
Verdict(s) ==
    IF is_inconsistent(s)
    THEN IF is_sec_oriented(s) THEN "SecurityOriented"
         ELSE IF is_comp_oriented(s) THEN "CompatibilityOriented"
         ELSE "Inconstancy"
    ELSE "Consistent"

-----------------------------------------------------------------------------
(* The inputs the operations are applied to *)

Url(sch, h) == [rel |-> FALSE, scheme |-> sch, host |-> h]
RelUrl(h) == [rel |-> TRUE, scheme |-> "", host |-> h]
Seg(w, bd) == [ws |-> w, body |-> bd]
Csp(pd, ts) == [pad |-> pd, toks |-> ts]
Kw(w) == <<"kw", w>>
Src(sch, h) == <<"src", sch, h>>

SeqsUpTo(S, n) == UNION {[1..k -> S] : k \in 0..n}

\* page origins: valid ones (one protocol-relative), and one of each way of
\* being invalid (scheme, empty host, host starting with "*.")
ValidOrigins ==
    { Url("https", <<"a", "b">>), RelUrl(<<"a", "b">>), Url("http", <<"b">>) }
InvalidOrigins ==
    { Url("ftp", <<"a", "b">>), Url("https", <<>>), Url("https", <<"*", "b">>) }
Origins == ValidOrigins \cup InvalidOrigins

\* segments of a raw XFO header
Segs ==
    { Seg(FALSE, <<"SAMEORIGIN">>),
      Seg(FALSE, <<"deny">>),
      Seg(TRUE, <<"DENY">>),
      Seg(FALSE, <<"allow-from", Url("https", <<"b">>)>>),
      Seg(FALSE, <<"ALLOW-FROM", Url("https", <<"a", "b">>)>>),
      Seg(FALSE, <<"allow-from", Url("http", <<"*">>)>>),
      Seg(FALSE, <<"allow-from", RelUrl(<<"b">>)>>),
      Seg(FALSE, <<"allow-from", Url("https", <<"b">>), "x">>),
      Seg(FALSE, <<"foo">>),
      SENTINEL_SEG }

\* the lists of raw XFO headers made of the segments fs: cut[i] tells whether
\* a new header starts after segment i (otherwise a comma follows it)
Group(fs, cut) ==
    LET RECURSIVE G(_, _)
        G(i, acc) ==
            IF i > Len(fs) THEN acc
            ELSE IF i = 1 \/ cut[i - 1]
                THEN G(i + 1, Append(acc, <<fs[i]>>))
                ELSE G(i + 1, [acc EXCEPT ![Len(acc)] = Append(@, fs[i])])
    IN  G(1, <<>>)

XfoLists ==
    { Group(fs, cut) : fs \in SeqsUpTo(Segs, MaxSegs),
                       cut \in [1..(MaxSegs - 1) -> BOOLEAN] }

XfoFew ==
    { <<>>, << <<SENTINEL_SEG>> >>, << <<Seg(FALSE, <<"deny">>)>> >>,
      << <<Seg(FALSE, <<"SAMEORIGIN">>), Seg(TRUE, <<"foo">>)>> >> }

\* raw CSP headers: absent, empty, blank, padded sentinel, one and two sources
CspHeaders ==
    { SENTINEL_CSP,
      Csp(FALSE, <<>>),
      Csp(TRUE, <<>>),
      Csp(TRUE, <<Kw(NO_HEADER)>>),
      Csp(FALSE, <<Kw("*")>>),
      Csp(FALSE, <<Kw("'NONE'")>>),
      Csp(TRUE, <<Kw("'self'")>>),
      Csp(FALSE, <<Kw("https:"), Src("", <<"*", "b">>)>>),
      Csp(FALSE, <<Src("http", <<"a", "b">>), Kw("'self'")>>) }

CspLists == SeqsUpTo(CspHeaders, MaxCsp)

CspFew == { <<>>, <<SENTINEL_CSP>>, <<SENTINEL_CSP, Csp(FALSE, <<Kw("'self'")>>)>> }

Bundles ==
    { [xfo |-> x, csp |-> c] : x \in XfoLists, c \in CspFew }
    \cup { [xfo |-> x, csp |-> c] : x \in XfoFew, c \in CspLists }

UserAgents == SupportedBrowsers \cup {UNKNOWN_UA}

-----------------------------------------------------------------------------
(* translate applied to one bundle *)

NoBundle == [xfo |-> <<>>, csp |-> <<>>]
NoReport == [xfo |-> <<>>, csp |-> <<>>]
NoFlags == [inconsistent |-> FALSE, sec |-> FALSE, comp |-> FALSE]

InitTranslate ==
    /\ pc = "start"
    /\ orig \in Origins
    /\ p \in Bundles
    /\ b = ""
    /\ res = <<>>
    /\ e1 = Star /\ e2 = Star /\ out = FALSE
    /\ data = <<>> /\ inc = NoReport /\ flags = NoFlags /\ status = ""

\* translate(p, b, orig) returns
Translate(ua) ==
    /\ pc = "start"
    /\ ua \in SupportedBrowsers
    /\ b' = ua
    /\ res' = translate(p, ua, orig)
    /\ pc' = "translated"
    /\ UNCHANGED <<orig, p, e1, e2, out, data, inc, flags, status>>

\* translate(p, b, orig) on an unsupported browser: sys.exit()
Unsupported(ua) ==
    /\ pc = "start"
    /\ ua \notin SupportedBrowsers
    /\ b' = ua
    /\ pc' = "exit"
    /\ UNCHANGED <<orig, p, res, e1, e2, out, data, inc, flags, status>>

NextTranslate ==
    \/ \E ua \in UserAgents : Translate(ua)
    \/ \E ua \in UserAgents : Unsupported(ua)

SpecTranslate == InitTranslate /\ [][NextTranslate]_vars

-----------------------------------------------------------------------------
(* Vocabulary of the properties *)

ModernCapable == {FIREFOX, EDGE} \cup ChromeFamily
LegacyOnly == {IE, OPERA_MINI}
CommaSplitting == {FIREFOX} \cup ChromeFamily

\* the page origin passes validation (after the "//" prefix rule)
ValidPage(o) == is_valid_origin(urlparse(WithHttps(o)))

IsPresentCsp(h) == h # SENTINEL_CSP
IsPresentXfo(h) == h # <<SENTINEL_SEG>>
IsPresentSeg(g) == g # SENTINEL_SEG

\* the modern / legacy headers of a bundle that are not the absence sentinel
PresentCsp(q) == SelectSeq(q.csp, IsPresentCsp)
PresentXfo(q) == SelectSeq(q.xfo, IsPresentXfo)

\* all comma-separated legacy values of a bundle, in order, and the present ones
AllSegs(q) ==
    LET RECURSIVE Cat(_)
        Cat(i) == IF i > Len(q.xfo) THEN <<>> ELSE q.xfo[i] \o Cat(i + 1)
    IN  Cat(1)
PresentSegs(q) == SelectSeq(AllSegs(q), IsPresentSeg)

\* the XFOOutcome of a present legacy value (whole header, or one segment)
OutcomeOfHeader(h, o) == normalize_xfo([h EXCEPT ![1].ws = FALSE], o)
OutcomeOfSeg(g, o) == normalize_xfo(<<[g EXCEPT !.ws = FALSE]>>, o)

\* the single-value rule of the Edge row of the table
EdgeRule(x) ==
    CASE x[1] = "JUNK" -> Star
      [] x[1] \in {"DENY", "ALLOW-JUNK"} -> NoneExp
      [] x[1] \in {"SAMEORIGIN", "ALLOW-FROM"} -> x[2]

\* the single-value rule Opera Mini follows
OperaRule(x) ==
    CASE x[1] \in {"JUNK", "ALLOW-JUNK", "ALLOW-FROM"} -> Star
      [] x[1] = "DENY" -> NoneExp
      [] x[1] = "SAMEORIGIN" -> x[2]

\* the contributions to the fold named by the Firefox and Chrome rows
FirefoxRule(x) == EdgeRule(x)
ChromeRule(x) == OperaRule(x)

\* left fold of meet over the contributions of the outcomes xs, from Wildcard
FoldMeet(xs, Rule(_)) ==
    LET RECURSIVE F(_)
        F(n) == IF n = 0 THEN Star ELSE meet(F(n - 1), Rule(xs[n]))
    IN  F(Len(xs))

Bijections(n) == {f \in [1..n -> 1..n] : \A i, j \in 1..n : f[i] = f[j] => i = j}

\* every element of a result is one of the four kinds of policy expression
IsExpression(x) ==
    \/ x = Star
    \/ x = NoneExp
    \/ Len(x) = 2 /\ x[1] \in {"http", "https"}

-----------------------------------------------------------------------------
(* Properties of the translators (SpecTranslate) *)

\* C1 as stated: for all five archetypes a present modern header decides the
\* result: it is the normalization of the first present modern header.
C1_AllArchetypesModernFirst ==
    (pc = "translated" /\ PresentCsp(p) # <<>>)
        => res = normalize_csp(PresentCsp(p)[1].toks, orig)

\* C1 amended: for Firefox, the Chrome family and Edge the result is the
\* normalization of the first present modern header, whatever the other
\* modern headers and the legacy headers are; Internet Explorer and Opera
\* Mini ignore the modern headers: their result is that of the bundle with
\* the modern headers removed.
C1_ModernFirst ==
    (pc = "translated" /\ PresentCsp(p) # <<>>)
        => /\ b \in ModernCapable
                => res = normalize_csp(PresentCsp(p)[1].toks, orig)
           /\ b \in LegacyOnly
                => res = translate([xfo |-> p.xfo, csp |-> <<>>], b, orig)

C1_Witness ==
    /\ pc = "translated"
    /\ b = EDGE
    /\ Len(PresentCsp(p)) >= 2
    /\ PresentCsp(p)[1] # PresentCsp(p)[2]
    /\ PresentXfo(p) # <<>>
    /\ res = <<NoneExp>>

\* C2 as stated: without a modern header, Edge, Internet Explorer and Opera
\* Mini all follow the Edge rule on the first present legacy value.
C2_SingleValueSame ==
    (/\ pc = "translated"
     /\ b \in {EDGE, IE, OPERA_MINI}
     /\ ValidPage(orig)
     /\ PresentCsp(p) = <<>>)
        => res = IF PresentXfo(p) = <<>> THEN <<Star>>
                 ELSE <<EdgeRule(OutcomeOfHeader(PresentXfo(p)[1], orig))>>

\* C2 amended: without a modern header and with a valid page origin, Edge and
\* Internet Explorer return the same result, decided by the first present
\* legacy value alone, unsplit (Junk: Wildcard; Deny, AllowJunk: None;
\* SameOrigin, AllowFrom: the held origin); Opera Mini also reads only the
\* first present value, unsplit, but maps Junk, AllowJunk and AllowFrom to
\* Wildcard, Deny to None and SameOrigin to the page origin.
C2_SingleValue ==
    (/\ pc = "translated"
     /\ b \in {EDGE, IE, OPERA_MINI}
     /\ ValidPage(orig)
     /\ PresentCsp(p) = <<>>)
        => res = IF PresentXfo(p) = <<>> THEN <<Star>>
                 ELSE LET x == OutcomeOfHeader(PresentXfo(p)[1], orig)
                      IN  IF b = OPERA_MINI THEN <<OperaRule(x)>> ELSE <<EdgeRule(x)>>

C2_Witness ==
    /\ pc = "translated"
    /\ b = IE
    /\ ValidPage(orig)
    /\ PresentCsp(p) = <<>>
    /\ Len(PresentXfo(p)) = 1
    /\ Len(p.xfo) = 2
    /\ OutcomeOfHeader(PresentXfo(p)[1], orig)[1] = "ALLOW-FROM"
    /\ res # <<Star>>

\* C3: with a valid page origin the result is a non-empty sequence of policy
\* expressions, and a bundle with every header absent, or whose (first
\* present) modern header has no directive at all, gives [Wildcard].
C3_NonEmptyEnforced ==
    (pc = "translated" /\ ValidPage(orig))
        => /\ res # <<>>
           /\ res # JUNK_STR
           /\ \A i \in 1..Len(res) : IsExpression(res[i])
           /\ (PresentCsp(p) = <<>> /\ PresentXfo(p) = <<>>) => res = <<Star>>
           /\ (PresentCsp(p) # <<>> /\ PresentCsp(p)[1].toks = <<>>) => res = <<Star>>

\* C4: with an invalid page origin and at least one present header the result
\* is [Wildcard]; the Junk sentinel is never returned.
C4_InvalidOriginWildcard ==
    (/\ pc = "translated"
     /\ ~ValidPage(orig)
     /\ (PresentCsp(p) # <<>> \/ PresentXfo(p) # <<>>))
        => res = <<Star>>

\* C8: without a modern header, with a valid page origin and a present legacy
\* value, Firefox and the Chrome family return the singleton of the left fold
\* of meet, from Wildcard, over the comma-split values, each contributing by
\* its archetype's row of the table.
C8_LegacyFold ==
    (/\ pc = "translated"
     /\ b \in CommaSplitting
     /\ ValidPage(orig)
     /\ PresentCsp(p) = <<>>
     /\ PresentSegs(p) # <<>>)
        => LET xs == [i \in 1..Len(PresentSegs(p)) |-> OutcomeOfSeg(PresentSegs(p)[i], orig)]
           IN  res = IF b = FIREFOX THEN <<FoldMeet(xs, FirefoxRule)>>
                     ELSE <<FoldMeet(xs, ChromeRule)>>

C8_Witness ==
    /\ pc = "translated"
    /\ b = SAMSUNG
    /\ ValidPage(orig)
    /\ PresentCsp(p) = <<>>
    /\ Len(p.xfo) = 1
    /\ Len(PresentSegs(p)) = 2
    /\ OutcomeOfSeg(PresentSegs(p)[1], orig)[1] = "SAMEORIGIN"
    /\ OutcomeOfSeg(PresentSegs(p)[2], orig)[1] = "ALLOW-FROM"
    /\ res = <<OutcomeOfSeg(PresentSegs(p)[1], orig)[2]>>

\* C9: without a modern header and with a valid page origin, Firefox and the
\* Chrome family return the same result for every permutation of the
\* comma-split legacy values of the bundle.
C9_OrderIndependent ==
    (/\ pc = "translated"
     /\ b \in CommaSplitting
     /\ ValidPage(orig)
     /\ PresentCsp(p) = <<>>)
        => LET gs == AllSegs(p)
           IN  \A f \in Bijections(Len(gs)) :
                   translate([xfo |-> [i \in 1..Len(gs) |-> <<gs[f[i]]>>], csp |-> p.csp],
                             b, orig) = res

C9_Witness ==
    /\ pc = "translated"
    /\ b = FIREFOX
    /\ ValidPage(orig)
    /\ PresentCsp(p) = <<>>
    /\ Len(PresentSegs(p)) >= 2
    /\ OutcomeOfSeg(PresentSegs(p)[1], orig)[1] = "ALLOW-FROM"
    /\ OutcomeOfSeg(PresentSegs(p)[2], orig)[1] = "SAMEORIGIN"
    /\ OutcomeOfSeg(PresentSegs(p)[1], orig)[2] # OutcomeOfSeg(PresentSegs(p)[2], orig)[2]
    /\ res = <<NoneExp>>

-----------------------------------------------------------------------------
(* leq_exp and meet applied to a pair of policy expressions *)

Schemes == {"http", "https"}

\* literal host names of at most n labels
LiteralHosts(n) == UNION {[1..k -> Labels] : k \in 1..n}

\* "*.r" host patterns of at most MaxDepth labels
WildcardHosts == {<<"*">> \o r : r \in LiteralHosts(MaxDepth - 1)}

\* Wildcard, None, SchemeAny{s} and OriginMatch{s, h}
Exprs ==
    {Star, NoneExp}
    \cup {<<sc, h>> : sc \in Schemes,
                      h \in LiteralHosts(MaxDepth) \cup WildcardHosts \cup {<<"*">>}}

InitLattice ==
    /\ pc = "start"
    /\ e1 \in Exprs
    /\ e2 \in Exprs
    /\ out = FALSE
    /\ orig = Url("https", <<"a", "b">>) /\ p = NoBundle /\ b = "" /\ res = <<>>
    /\ data = <<>> /\ inc = NoReport /\ flags = NoFlags /\ status = ""

\* leq_exp(e1, e2) returns
LeqExp ==
    /\ pc = "start"
    /\ out' = leq_exp(e1, e2)
    /\ pc' = "leq"
    /\ UNCHANGED <<orig, p, b, res, e1, e2, data, inc, flags, status>>

\* meet(e1, e2) returns
Meet ==
    /\ pc = "start"
    /\ out' = meet(e1, e2)
    /\ pc' = "meet"
    /\ UNCHANGED <<orig, p, b, res, e1, e2, data, inc, flags, status>>

NextLattice == LeqExp \/ Meet

SpecLattice == InitLattice /\ [][NextLattice]_vars

\* the origins (scheme, literal host) expressions are compared on
AllOrigins == {<<sc, h>> : sc \in Schemes, h \in LiteralHosts(MaxDepth)}

\* r is a suffix of h that is shorter than h
ProperSubdomain(h, r) ==
    /\ Len(h) > Len(r)
    /\ \A i \in 1..Len(r) : h[Len(h) - Len(r) + i] = r[i]

\* the origins an expression permits by the data model: "*.r" stands for r
\* and every subdomain of r
PermitsDataModel(x) ==
    IF x = Star THEN AllOrigins
    ELSE IF x = NoneExp THEN {}
    ELSE IF x[2] = <<"*">> THEN {o \in AllOrigins : o[1] = x[1]}
    ELSE IF x[2][1] = "*"
        THEN {o \in AllOrigins :
                 o[1] = x[1] /\ (o[2] = Tail(x[2]) \/ ProperSubdomain(o[2], Tail(x[2])))}
    ELSE {o \in AllOrigins : o = x}

\* the origins an expression permits when "*.r" stands for the proper
\* subdomains of r only
Permits(x) ==
    IF x = Star THEN AllOrigins
    ELSE IF x = NoneExp THEN {}
    ELSE IF x[2] = <<"*">> THEN {o \in AllOrigins : o[1] = x[1]}
    ELSE IF x[2][1] = "*"
        THEN {o \in AllOrigins : o[1] = x[1] /\ ProperSubdomain(o[2], Tail(x[2]))}
    ELSE {o \in AllOrigins : o = x}

\* C5 as stated: leq_exp(e1, e2) holds exactly when the origins e1 permits
\* are among those e2 permits, "*.r" permitting r and every subdomain of r.
C5_LeqIsSubsetDataModel ==
    pc = "leq" => (out <=> PermitsDataModel(e1) \subseteq PermitsDataModel(e2))

\* C5 amended: leq_exp(e1, e2) holds exactly when the origins e1 permits are
\* among those e2 permits, where OriginMatch{s, "*.r"} permits the proper
\* subdomains of r under s (not r itself), and the other expressions permit
\* what the data model says.
C5_LeqIsSubset ==
    pc = "leq" => (out <=> Permits(e1) \subseteq Permits(e2))

C5_Witness ==
    /\ pc = "leq"
    /\ e1 \notin {Star, NoneExp}
    /\ e2 \notin {Star, NoneExp}
    /\ e1[1] = e2[1]
    /\ Len(e2[2]) >= 2
    /\ e2[2][1] = "*"
    /\ e1[2] = Tail(e2[2])
    /\ out = FALSE

\* C7: meet is commutative on Wildcard, None, SchemeAny and OriginMatch.
C7_MeetCommutative ==
    pc = "meet" => out = meet(e2, e1)

C7_Witness ==
    /\ pc = "meet"
    /\ e1 \notin {Star, NoneExp}
    /\ e2 \notin {Star, NoneExp}
    /\ e1[2][1] = "*"
    /\ Len(e1[2]) >= 2
    /\ e2[2][1] # "*"
    /\ out = e2

-----------------------------------------------------------------------------
(* analyze applied to the data collected for a site *)

AnalysisBrowsers == {FIREFOX, CHROME, EDGE, IE, OPERA_MINI}

AnalysisBundles ==
    { [xfo |-> << <<Seg(FALSE, <<"SAMEORIGIN">>)>> >>,
       csp |-> <<Csp(FALSE, <<Kw("'self'")>>)>>],
      [xfo |-> << <<Seg(FALSE, <<"deny">>)>> >>,
       csp |-> <<Csp(FALSE, <<Kw("'NONE'")>>)>>],
      [xfo |-> << <<Seg(FALSE, <<"allow-from", Url("https", <<"b">>)>>)>> >>,
       csp |-> <<SENTINEL_CSP>>],
      [xfo |-> <<>>,
       csp |-> <<Csp(FALSE, <<Kw("https:"), Src("", <<"*", "b">>)>>)>>],
      [xfo |-> << <<SENTINEL_SEG>> >>,
       csp |-> <<Csp(FALSE, <<>>)>>] }

AnalysisSites == { Url("https", <<"a", "b">>), Url("ftp", <<"a", "b">>) }

\* the dict data: at most MaxBrowsers distinct user agents, in insertion order
DataSets ==
    { d \in SeqsUpTo(AnalysisBrowsers \X AnalysisBundles, MaxBrowsers) :
        \A i, j \in 1..Len(d) : d[i][1] = d[j][1] => i = j }

InitAnalyze ==
    /\ pc = "start"
    /\ orig \in AnalysisSites
    /\ data \in DataSets
    /\ inc = NoReport /\ flags = NoFlags /\ status = ""
    /\ p = NoBundle /\ b = "" /\ res = <<>>
    /\ e1 = Star /\ e2 = Star /\ out = FALSE

\* analyze(site, data): the report, the three classifications, the status
analyze ==
    /\ pc = "start"
    /\ inc' = find_inconsistencies(data, orig)
    /\ flags' = [inconsistent |-> is_inconsistent(inc'),
                 sec |-> is_sec_oriented(inc'),
                 comp |-> is_comp_oriented(inc')]
    /\ status' = Verdict(inc')
    /\ pc' = "analysed"
    /\ UNCHANGED <<orig, p, b, res, e1, e2, out, data>>

NextAnalyze == analyze

SpecAnalyze == InitAnalyze /\ [][NextAnalyze]_vars

\* the distinct values a bucket holds
Values(bucket) == {bucket[i] : i \in 1..Len(bucket)}

\* v1 and v2 are leq_val-below each other
MutuallyLeq(v1, v2) == leq_val(v1, v2) /\ leq_val(v2, v1)

\* C6: is_inconsistent is true when a bucket holds more than one distinct
\* value; with exactly one value in each it is true exactly when leq_val
\* fails in one of the two directions; otherwise it is false.
C6_IsInconsistent ==
    pc = "analysed" =>
        LET nx == Cardinality(Values(inc.xfo))
            nc == Cardinality(Values(inc.csp))
        IN  /\ (nx > 1 \/ nc > 1) => flags.inconsistent
            /\ (nx = 1 /\ nc = 1) =>
                   (flags.inconsistent <=> ~MutuallyLeq(inc.xfo[1], inc.csp[1]))
            /\ (nx <= 1 /\ nc <= 1 /\ (nx = 0 \/ nc = 0)) => ~flags.inconsistent

C6_Witness ==
    /\ pc = "analysed"
    /\ Len(inc.xfo) = 1
    /\ Len(inc.csp) = 1
    /\ Len(data) > 2
    /\ leq_val(inc.xfo[1], inc.csp[1])
    /\ ~leq_val(inc.csp[1], inc.xfo[1])
    /\ flags.inconsistent

\* C10: is_inconsistent is true exactly when is_sec_oriented and
\* is_comp_oriented are not both true; the status is 'Consistent' exactly
\* when both are true; a report with more than one value in a bucket is
\* neither and gets the plain inconsistency status.
C10_InconsistentIffNotBoth ==
    pc = "analysed" =>
        /\ flags.inconsistent <=> ~(flags.sec /\ flags.comp)
        /\ status = "Consistent" <=> (flags.sec /\ flags.comp)
        /\ (Len(inc.xfo) > 1 \/ Len(inc.csp) > 1)
               => (~flags.sec /\ ~flags.comp /\ status = "Inconstancy")

C10_Witness ==
    /\ pc = "analysed"
    /\ Len(inc.xfo) = 1
    /\ Len(inc.csp) > 1
    /\ status = "Inconstancy"

====
